---- MODULE Spec2Model ----
(***************************************************************************)
(* Page-count estimation and re-stabilisation loop of tiptap-pagination-   *)
(* plus.  The repository holds several evolutions of the same extension;   *)
(* the ones modelled here are                                              *)
(*   - the lock-based controller (window.__pp_state, MAX_PAGES = 100,      *)
(*     MAX_UPDATES = 10): src/unnamed/part_001 lines 1066-2167,            *)
(*   - the debug variant's estimator: src/src/PaginationPlus.ts,           *)
(*   - the base-content-height variant's division estimator:               *)
(*     src/unnamed/part_001 lines 1-1065,                                  *)
(*   - the division variant of the lock-based estimator (MAX_PAGES = 500): *)
(*     src/dist/PaginationPlus.js lines 1515-2017.                         *)
(* Heights are integers (pixels).  The DOM is the measurement each         *)
(* estimator call reads; its values are inputs of the actions.             *)
(***************************************************************************)
EXTENDS Integers, FiniteSets, Sequences, TLC

\* ------------------------------------------------------------------------
\* Program constants
\* ------------------------------------------------------------------------
MAX_PAGES == 100
MAX_UPDATES == 10
MAX_PAGES_DIVISION == 500
\* the floor under which the content area is degenerate, and the noise floor
\* of the measured content height
MIN_CONTENT_AREA == 50
MIN_CONTENT_HEIGHT == 50
\* the overflow above which the lock-based estimator adds pages
OVERFLOW_TOLERANCE == 10
\* the dimensionsKey variant: the overflow above which it adds pages and the
\* empty space up to which it keeps the rendered count
OVERFLOW_TOLERANCE_DIMENSIONS == 20
UNDERFLOW_TOLERANCE_DIMENSIONS == 50
MAX_UPDATES_DIMENSIONS == 15
MAX_PAGINATION_ITERATIONS == 30
\* the debug variant: the callCount above which view.update stops
MAX_DEBUG_CALLS == 50

\* ------------------------------------------------------------------------
\* Bounds of the model
\* ------------------------------------------------------------------------
\* state objects that can be alive at once (window.__pp_state and the objects
\* that pending closures still hold)
MaxObj == 3
\* animation-frame callbacks that can be pending at once
MaxRaf == 2
\* debug variant: external transactions are applied while callCount is at
\* most this
MaxCalls == 52
\* debug variant: the layout stops overflowing once this many pages are
\* rendered
MaxRendered == 3

Sessions == {1, 2}
ObjIds == 1..MaxObj

\* the page heights the height command is given
PageHeights == {90, 800}
\* the page sizes the size command is given: a narrower page with narrower
\* side margins, at either page height
PageSizes ==
    {[pageHeight |-> h, pageWidth |-> 600, marginTop |-> 20,
      marginBottom |-> 20, marginLeft |-> 30, marginRight |-> 30] :
        h \in PageHeights}
\* the page gaps the gap command is given
PageGaps == {50, 100}
\* the content heights view.update of the base-content-height variant measures
ContentHeights == {740, 2000, 4000}
\* the documents of the editor, as the sequence of their nodes
Docs == {<<>>, <<"text">>, <<"hardBreak">>, <<"text", "hardBreak">>,
         <<"hardBreak", "text">>}
\* the last page gap the debug variant measures: content fits, overflows
PageGapsMeasured == {-100, 50}
\* where the content of the fixed document of the closed loop ends
ContentBottoms == {700, 860, 900, 1700, 1750, 2560, 2600, 4300}
\* the overflows the layout is measured to have while the controller runs
Overflows == {-40000, -5, 36500}

Min(a, b) == IF a < b THEN a ELSE b
Max(a, b) == IF a > b THEN a ELSE b
Abs(a) == IF a < 0 THEN -a ELSE a
\* Math.ceil(a / b) and Math.floor(a / b) for b > 0
Ceil(a, b) == -((-a) \div b)
Floor(a, b) == a \div b

\* ------------------------------------------------------------------------
\* Faulty variants of definitions below: plausible bugs that the properties
\* at the end of the module tell apart from the program
\* ------------------------------------------------------------------------
\* the attempt counter is never compared with the bound
OverBoundNever(updateCount) == FALSE
\* the lock is never honoured
LockedNever(st) == FALSE
\* apply rebuilds on every transaction
needsUpdateAlways(calculatedPageCount, currentPageCount, st, o) == TRUE
\* removal without the floor of one page
RemovePagesUnfloored(currentPageCount, pagesToRemove) ==
    currentPageCount - pagesToRemove
\* the unlock timer releases the lock and leaves the attempt counter
UnlockedKeepsCount(st) == [st EXCEPT !.locked = FALSE]
\* the clamp starts over at one page when the bound is passed
PagesNeededStartsOver(totalContentHeight, pageContentHeight) ==
    IF Ceil(totalContentHeight, pageContentHeight) > MAX_PAGES_DIVISION
    THEN 1
    ELSE Max(1, Ceil(totalContentHeight, pageContentHeight))
\* the pages to add are rounded down
AddPagesRoundedDown(currentPageCount, overflow, pageContentHeight) ==
    Min(currentPageCount + Floor(overflow, pageContentHeight), MAX_PAGES)
\* the degenerate-geometry check only rejects an empty content area
TooSmallOnlyEmpty(pageContentHeight) == pageContentHeight <= 0
\* a dimensions check that forgets to reset the attempt counter
DimensionsCheckedKeepsCount(st, o) ==
    IF st.dimensionsKey # <<o.pageWidth, o.pageHeight>>
    THEN [st EXCEPT !.dimensionsKey = <<o.pageWidth, o.pageHeight>>,
                    !.pageCount = 1]
    ELSE st
\* a snapshot that caches a measured height of the default header
SnapshotCachesMeasured(o, headerHeight, footerHeight, pageCount) ==
    [opts |-> o, headerHeight |-> (0 :> 30), footerHeight |-> footerHeight,
     lastPageCount |-> pageCount]
\* a builder that keeps the lower bound but not the upper one
safePageCountUnclamped(pageCount) == IF pageCount < 1 THEN 1 ELSE pageCount
\* the child filter of getActualContentHeight, recognising the wrapper only
SkipsOnlyWrapper(child) ==
    child.id = "pages" \/ "rm-pages-wrapper" \in child.classList

\* handlers may interleave: a transaction is applied before view.update of
\* the previous one has run
IdleAlways == TRUE
\* an iteration guard that lets one more pass through
OverIterationsLate(count) == count > MAX_PAGINATION_ITERATIONS + 1

VARIABLES
    win,        \* window.__pp_state: the state object getState() returns
    pp,         \* the state objects: pageCount, locked, updateCount
    timers,     \* state objects whose unlock timer (setTimeout) is pending
    rafs,       \* pending requestAnimationFrame callbacks, by view and by
                \* the state object the callback captured
    active,     \* the editors that have been created
    destroyed,  \* view.isDestroyed
    options,    \* extension.options
    storage,    \* extension.storage
    deco,       \* the pagination plugin's state (its decoration set)
    rendered,   \* children of the [data-rm-pagination] element in view.dom
    phase,      \* "idle"; or the host has applied a transaction and is about
                \* to call the plugin view's update: "applied" when apply
                \* returned the old decoration set, "rebuilt" when it returned
                \* a new one, which the host has rendered
    est         \* the last direct call of an estimator: inputs and result

lockVars == <<win, pp, timers, rafs, active, destroyed, options, storage,
              deco, rendered, phase>>
vars == <<win, pp, timers, rafs, active, destroyed, options, storage,
          deco, rendered, phase, est>>

\* ------------------------------------------------------------------------
\* window.__pp_state
\* ------------------------------------------------------------------------
FreshState == [pageCount |-> 1, locked |-> FALSE, updateCount |-> 0]

getState == pp[win]

RafCount(r) == LET pairs == Sessions \X ObjIds
                   RECURSIVE Sum(_)
                   Sum(S) == IF S = {} THEN 0
                             ELSE LET p == CHOOSE q \in S : TRUE
                                  IN r[p[1]][p[2]] + Sum(S \ {p})
               IN Sum(pairs)

\* a reset that clears the current state object in place
NewObjInPlace == win

\* a state object is alive while window.__pp_state or a pending closure
\* refers to it
Referenced(o, w, t, r) == o = w \/ o \in t \/ \E s \in Sessions : r[s][o] > 0

\* objects nothing refers to any more are garbage; of an object that
\* window.__pp_state has left, the pending closures read and write `locked`
\* and write `updateCount`, and nothing reads its other fields again
Collect(h, w, t, r) ==
    [o \in ObjIds |->
        IF o = w THEN h[o]
        ELSE IF Referenced(o, w, t, r)
             THEN [FreshState EXCEPT !.locked = h[o].locked]
             ELSE FreshState]

FreeObjs == {o \in ObjIds : ~Referenced(o, win, timers, rafs)}

NewObj == CHOOSE o \in FreeObjs : \A p \in FreeObjs : o <= p

\* resetState(): window.__pp_state becomes a new object
resetState ==
    /\ FreeObjs # {}
    /\ win' = NewObj
    /\ pp' = Collect([pp EXCEPT ![NewObj] = FreshState], NewObj, timers, rafs)

\* ------------------------------------------------------------------------
\* Options
\* ------------------------------------------------------------------------
defaultOptions ==
    [pageHeight |-> 800, pageWidth |-> 789, pageGap |-> 50,
     marginTop |-> 20, marginBottom |-> 20, marginLeft |-> 50,
     marginRight |-> 50, contentMarginTop |-> 10, contentMarginBottom |-> 10,
     customHeader |-> {}, customFooter |-> {}]

\* contentAreaHeight: the page height less the reserved header and footer
PageContentHeight(o, headerHeight, footerHeight) ==
    LET pageHeaderHeight == o.contentMarginTop + o.marginTop + headerHeight
        pageFooterHeight == o.contentMarginBottom + o.marginBottom + footerHeight
    IN o.pageHeight - pageHeaderHeight - pageFooterHeight

\* ------------------------------------------------------------------------
\* The DOM an estimator reads
\* ------------------------------------------------------------------------
\* hasPagination: view.dom has a [data-rm-pagination] element
\* children:      its children (the rendered pages)
\* hasBreaker:    its last child has a .breaker
\* hasContent:    view.dom has a child that is not pagination scaffolding
\* contentHeight: the summed height of those children; the debug variant
\*                reads view.dom.scrollHeight instead
\* overflow:      last content bottom - last break bottom
Dom(hasPagination, children, hasBreaker, hasContent, contentHeight, overflow) ==
    [hasPagination |-> hasPagination, children |-> children,
     hasBreaker |-> hasBreaker, hasContent |-> hasContent,
     contentHeight |-> contentHeight, overflow |-> overflow]

\* the DOM of a running editor: the pagination widget is rendered with
\* `n` pages, the document has content
RenderedDom(n, overflow) == Dom(TRUE, n, TRUE, TRUE, 0, overflow)

getExistingPageCount(d) == IF d.hasPagination THEN d.children ELSE 0

\* ------------------------------------------------------------------------
\* calculatePageCount of the lock-based controller: the value returned and
\* the state object as the call leaves it
\* ------------------------------------------------------------------------
Returning(st, n) == [ret |-> n, st |-> [st EXCEPT !.pageCount = n]]

\* if (state.locked), if (ppState.locked)
Locked(st) == st.locked

\* the content area is too small to paginate
TooSmall(pageContentHeight) == pageContentHeight <= MIN_CONTENT_AREA

\* no pagination rendered yet: the estimate from the summed content height
Estimated(contentHeight, pageContentHeight) ==
    Min(Max(1, Ceil(contentHeight, pageContentHeight)), MAX_PAGES)

\* content overflows the last break: pages are added
AddPages(currentPageCount, overflow, pageContentHeight) ==
    Min(currentPageCount + Ceil(overflow, pageContentHeight), MAX_PAGES)

\* content ends far above the last break: pages are removed
RemovePages(currentPageCount, pagesToRemove) ==
    Max(1, currentPageCount - pagesToRemove)

calculatePageCount(st, o, headerHeight, footerHeight, d) ==
    LET pageContentHeight == PageContentHeight(o, headerHeight, footerHeight)
        currentPageCount == d.children
        emptySpace == Abs(d.overflow)
        pagesToRemove == Floor(emptySpace, pageContentHeight + o.pageGap)
    IN  IF Locked(st) THEN [ret |-> st.pageCount, st |-> st]
        ELSE IF TooSmall(pageContentHeight) THEN Returning(st, 1)
        ELSE IF ~d.hasPagination THEN
            IF d.contentHeight < MIN_CONTENT_HEIGHT THEN Returning(st, 1)
            ELSE Returning(st, Estimated(d.contentHeight, pageContentHeight))
        ELSE IF ~d.hasBreaker THEN
            Returning(st, IF currentPageCount = 0 THEN 1 ELSE currentPageCount)
        ELSE IF ~d.hasContent THEN Returning(st, 1)
        ELSE IF d.overflow > OVERFLOW_TOLERANCE THEN
            Returning(st, AddPages(currentPageCount, d.overflow, pageContentHeight))
        ELSE IF /\ d.overflow < -(pageContentHeight + o.pageGap)
                /\ currentPageCount > 1
                /\ pagesToRemove > 0 THEN
            Returning(st, RemovePages(currentPageCount, pagesToRemove))
        ELSE Returning(st, currentPageCount)

\* ------------------------------------------------------------------------
\* calculatePageCount of the debug variant
\* ------------------------------------------------------------------------
calculatePageCountDebug(o, headerHeight, footerHeight, d) ==
    LET pageContentAreaHeight == PageContentHeight(o, headerHeight, footerHeight)
        currentPageCount == getExistingPageCount(d)
        lastPageGap == d.overflow
        lpFrom == -10
        lpTo == -(o.pageHeight - 10)
        addPage == Ceil(lastPageGap, pageContentAreaHeight)
        pageHeightOnRemove == o.pageHeight + o.pageGap
        removePage == Floor(lastPageGap, pageHeightOnRemove)
        editorHeight == d.contentHeight
        pageCount == Ceil(editorHeight, pageContentAreaHeight)
    IN  IF TooSmall(pageContentAreaHeight) THEN 1
        ELSE IF d.hasPagination THEN
            IF d.hasBreaker THEN
                IF lastPageGap > 0 THEN currentPageCount + addPage
                ELSE IF lastPageGap > lpTo /\ lastPageGap < lpFrom
                    THEN currentPageCount
                ELSE IF lastPageGap < lpTo
                    THEN Max(1, currentPageCount + removePage)
                ELSE currentPageCount
            ELSE 1
        ELSE IF pageCount <= 0 THEN 1 ELSE pageCount

\* ------------------------------------------------------------------------
\* calculatePageCountFromContent of the base-content-height variant
\* ------------------------------------------------------------------------
calculatePageCountFromContent(contentHeight, o, headerHeight, footerHeight) ==
    LET pageContentAreaHeight == PageContentHeight(o, headerHeight, footerHeight)
        pageCount == Ceil(contentHeight, pageContentAreaHeight)
    IN  IF TooSmall(pageContentAreaHeight) THEN 1
        ELSE Max(1, pageCount)

\* ------------------------------------------------------------------------
\* calculatePageCount of the division variant.  Its state object also holds
\* dimensionsKey, the page width and height of the last call
\* ------------------------------------------------------------------------
FreshDivisionState ==
    [pageCount |-> 1, locked |-> FALSE, updateCount |-> 0,
     dimensionsKey |-> <<>>]

DimensionsKey(o) == <<o.pageWidth, o.pageHeight>>

\* the state after the dimensions check
DimensionsChecked(st, o) ==
    IF st.dimensionsKey # DimensionsKey(o)
    THEN [st EXCEPT !.dimensionsKey = DimensionsKey(o),
                    !.pageCount = 1, !.updateCount = 0]
    ELSE st

PagesNeeded(totalContentHeight, pageContentHeight) ==
    Max(1, Min(Ceil(totalContentHeight, pageContentHeight), MAX_PAGES_DIVISION))

calculatePageCountDivision(st, o, headerHeight, footerHeight, d) ==
    LET pageContentHeight == PageContentHeight(o, headerHeight, footerHeight)
        checked == DimensionsChecked(st, o)
        totalContentHeight == d.contentHeight
    IN  IF Locked(st) THEN [ret |-> st.pageCount, st |-> st]
        ELSE IF TooSmall(pageContentHeight) THEN Returning(checked, 1)
        ELSE IF ~d.hasContent THEN Returning(checked, 1)
        ELSE IF totalContentHeight < MIN_CONTENT_HEIGHT THEN Returning(checked, 1)
        ELSE Returning(checked, PagesNeeded(totalContentHeight, pageContentHeight))

\* ------------------------------------------------------------------------
\* calculatePageCount of the dimensionsKey variant: the division estimate,
\* then the overflow correction when pagination is rendered
\* ------------------------------------------------------------------------
AddPagesDimensions(currentPageCount, overflow, pageContentHeight) ==
    Min(currentPageCount + Ceil(overflow, pageContentHeight), MAX_PAGES_DIVISION)

RemovePagesDimensions(currentPageCount, emptyPages) ==
    IF emptyPages >= 2
    THEN Max(1, currentPageCount - (emptyPages - 1))
    ELSE currentPageCount

calculatePageCountDimensions(st, o, headerHeight, footerHeight, d) ==
    LET pageContentHeight == PageContentHeight(o, headerHeight, footerHeight)
        checked == DimensionsChecked(st, o)
        totalContentHeight == d.contentHeight
        currentPageCount == getExistingPageCount(d)
        emptySpace == Abs(d.overflow)
        emptyPages == Floor(emptySpace, pageContentHeight + o.pageGap)
    IN  IF Locked(st) THEN [ret |-> st.pageCount, st |-> st]
        ELSE IF TooSmall(pageContentHeight) THEN Returning(checked, 1)
        ELSE IF ~d.hasContent THEN Returning(checked, 1)
        ELSE IF totalContentHeight < MIN_CONTENT_HEIGHT THEN Returning(checked, 1)
        ELSE IF ~(d.hasPagination /\ currentPageCount > 0 /\ d.hasBreaker) THEN
            Returning(checked, PagesNeeded(totalContentHeight, pageContentHeight))
        ELSE IF d.overflow > OVERFLOW_TOLERANCE_DIMENSIONS THEN
            Returning(checked, AddPagesDimensions(currentPageCount, d.overflow,
                                                  pageContentHeight))
        ELSE IF d.overflow >= -UNDERFLOW_TOLERANCE_DIMENSIONS THEN
            Returning(checked, currentPageCount)
        ELSE IF /\ d.overflow < -(pageContentHeight + o.pageGap)
                /\ currentPageCount > 1 THEN
            Returning(checked, RemovePagesDimensions(currentPageCount, emptyPages))
        ELSE Returning(checked, currentPageCount)

\* ------------------------------------------------------------------------
\* view.update of the base-content-height variant: the target is calculated
\* from globalBaseContentHeight, which follows the measured content height
\* only from 0 or when the height is more than 1.5 times it
\* ------------------------------------------------------------------------
BaseContentHeight(globalBaseContentHeight, contentHeight) ==
    IF \/ globalBaseContentHeight = 0
       \/ 2 * contentHeight > 3 * globalBaseContentHeight
    THEN contentHeight
    ELSE globalBaseContentHeight

targetPageCount(globalBaseContentHeight, contentHeight, o) ==
    calculatePageCountFromContent(
        BaseContentHeight(globalBaseContentHeight, contentHeight), o, 0, 0)

\* ------------------------------------------------------------------------
\* createDecoration: the decoration set built for a target page count
\* ------------------------------------------------------------------------
safePageCount(pageCount) == Max(1, Min(pageCount, MAX_PAGES))

createDecoration(pageCount) == [pages |-> safePageCount(pageCount)]

InitDeco == createDecoration(1)

\* a height cache is a function from the page numbers it has an entry for;
\* page 0 is the entry of the default header or footer
EmptyMap == [p \in {} |-> 0]

\* the storage snapshot apply writes: the options, the height caches carried
\* over, the page count
Snapshot(o, headerHeight, footerHeight, pageCount) ==
    [opts |-> o, headerHeight |-> headerHeight, footerHeight |-> footerHeight,
     lastPageCount |-> pageCount]

\* ------------------------------------------------------------------------
\* The editor after construction: the pagination plugin's init has built one
\* page, the view has rendered it, onCreate has reset the state
\* ------------------------------------------------------------------------
NoEst == [fn |-> "none"]

IdleRafs == [s \in Sessions |-> [o \in ObjIds |-> 0]]

Init ==
    /\ win = 1
    /\ pp = [o \in ObjIds |-> FreshState]
    /\ timers = {}
    /\ rafs = IdleRafs
    /\ active = {1}
    /\ destroyed = [s \in Sessions |-> FALSE]
    /\ options = [s \in Sessions |-> defaultOptions]
    /\ storage = [s \in Sessions |-> Snapshot(defaultOptions, EmptyMap, EmptyMap, 1)]
    /\ deco = [s \in Sessions |-> InitDeco]
    /\ rendered = [s \in Sessions |-> InitDeco.pages]
    /\ phase = [s \in Sessions |-> "idle"]
    /\ est = NoEst

\* JavaScript runs one handler at a time: nothing else runs between the
\* host's apply and its call of the plugin view's update
Idle == \A s \in Sessions : phase[s] = "idle"

\* ------------------------------------------------------------------------
\* paginationKey plugin, state.apply
\* ------------------------------------------------------------------------
settingsChanged(st, o) ==
    \/ st.opts.pageHeight # o.pageHeight
    \/ st.opts.pageWidth # o.pageWidth
    \/ st.opts.marginTop # o.marginTop
    \/ st.opts.marginBottom # o.marginBottom
    \/ st.opts.marginLeft # o.marginLeft
    \/ st.opts.marginRight # o.marginRight

needsUpdate(calculatedPageCount, currentPageCount, st, o) ==
    \/ calculatedPageCount # currentPageCount
    \/ settingsChanged(st, o)
    \/ o.customHeader # st.opts.customHeader
    \/ o.customFooter # st.opts.customFooter

\* the counter passed the bound: the caller locks and starts the unlock timer
OverBound(updateCount) == updateCount > MAX_UPDATES

\* apply of one transaction of editor s, the DOM measuring `overflow`, and
\* the host's rendering of the decoration set apply returned
apply(s, overflow) ==
    LET ppState == getState
        d == RenderedDom(rendered[s], overflow)
        currentPageCount == getExistingPageCount(d)
        calc == calculatePageCount(ppState, options[s], 0, 0, d)
        calculatedPageCount == calc.ret
        counted == [calc.st EXCEPT !.updateCount = @ + 1]
        built == createDecoration(calculatedPageCount)
    IN  /\ UNCHANGED <<win, active, destroyed, options>>
        /\ IF Locked(ppState) THEN
               /\ phase' = [phase EXCEPT ![s] = "applied"]
               /\ UNCHANGED <<pp, timers, deco, storage, rendered>>
           ELSE IF ~needsUpdate(calculatedPageCount, currentPageCount,
                                storage[s], options[s]) THEN
               /\ pp' = [pp EXCEPT ![win] = calc.st]
               /\ phase' = [phase EXCEPT ![s] = "applied"]
               /\ UNCHANGED <<timers, deco, storage, rendered>>
           ELSE IF OverBound(counted.updateCount) THEN
               /\ pp' = [pp EXCEPT ![win] = [counted EXCEPT !.locked = TRUE]]
               /\ timers' = timers \cup {win}
               /\ phase' = [phase EXCEPT ![s] = "applied"]
               /\ UNCHANGED <<deco, storage, rendered>>
           ELSE
               /\ pp' = [pp EXCEPT ![win] = counted]
               /\ deco' = [deco EXCEPT ![s] = built]
               /\ storage' = [storage EXCEPT
                                 ![s] = Snapshot(options[s],
                                                 storage[s].headerHeight,
                                                 storage[s].footerHeight,
                                                 calculatedPageCount)]
               /\ rendered' = [rendered EXCEPT ![s] = built.pages]
               /\ phase' = [phase EXCEPT ![s] = "rebuilt"]
               /\ UNCHANGED timers

\* an editor transaction from outside the extension (a selection change,
\* typing): view.dispatch
Transaction(s, overflow) ==
    /\ Idle
    /\ s \in active
    /\ ~destroyed[s]
    /\ RafCount(rafs) < MaxRaf
    /\ apply(s, overflow)
    /\ UNCHANGED <<rafs, est>>

\* ------------------------------------------------------------------------
\* paginationKey plugin view, update
\* ------------------------------------------------------------------------
\* view.update schedules a corrective dispatch on the next animation frame
Schedule(r, s, o) == [r EXCEPT ![s][o] = @ + 1]

ViewUpdate(s, overflow) ==
    LET ppState == getState
        d == RenderedDom(rendered[s], overflow)
        currentPageCount == getExistingPageCount(d)
        calc == calculatePageCount(ppState, options[s], 0, 0, d)
        calculatedPageCount == calc.ret
        counted == [calc.st EXCEPT !.updateCount = @ + 1]
    IN  /\ phase[s] # "idle"
        /\ phase' = [phase EXCEPT ![s] = "idle"]
        /\ UNCHANGED <<win, active, destroyed, options, storage, deco,
                       rendered, est>>
        /\ IF Locked(ppState) THEN
               UNCHANGED <<pp, timers, rafs>>
           ELSE IF currentPageCount # calculatedPageCount THEN
               IF OverBound(counted.updateCount) THEN
                   /\ pp' = [pp EXCEPT ![win] = [counted EXCEPT !.locked = TRUE]]
                   /\ timers' = timers \cup {win}
                   /\ UNCHANGED rafs
               ELSE
                   /\ pp' = [pp EXCEPT ![win] = counted]
                   /\ rafs' = Schedule(rafs, s, win)
                   /\ UNCHANGED timers
           ELSE
               \* Stable - reset counter
               /\ pp' = [pp EXCEPT ![win] = [calc.st EXCEPT !.updateCount = 0]]
               /\ UNCHANGED <<timers, rafs>>

\* ------------------------------------------------------------------------
\* the deferred callbacks
\* ------------------------------------------------------------------------
\* the requestAnimationFrame callback view.update scheduled: it dispatches
\* unless the state object it captured is locked or the view is destroyed
RafFire(s, o, overflow) ==
    LET left == [rafs EXCEPT ![s][o] = @ - 1]
    IN  /\ Idle
        /\ rafs[s][o] > 0
        /\ rafs' = left
        /\ UNCHANGED est
        /\ IF ~Locked(pp[o]) /\ ~destroyed[s] THEN
               apply(s, overflow)
           ELSE
               /\ pp' = Collect(pp, win, timers, left)
               /\ UNCHANGED <<win, timers, active, destroyed, options, storage,
                              deco, rendered, phase>>

\* the setTimeout callback of a lock: it unlocks the state object it captured
Unlocked(st) == [st EXCEPT !.locked = FALSE, !.updateCount = 0]

TimerFire(o) ==
    LET left == timers \ {o}
    IN  /\ Idle
        /\ o \in timers
        /\ timers' = left
        /\ pp' = Collect([pp EXCEPT ![o] = Unlocked(@)], win, left, rafs)
        /\ UNCHANGED <<win, rafs, active, destroyed, options, storage, deco,
                       rendered, phase, est>>

\* ------------------------------------------------------------------------
\* commands
\* ------------------------------------------------------------------------
updatePageHeight(s, height) ==
    /\ Idle
    /\ s \in active
    /\ resetState
    /\ options' = [options EXCEPT ![s].pageHeight = height]
    /\ UNCHANGED <<timers, rafs, active, destroyed, storage, deco, rendered,
                   phase, est>>

updatePageSize(s, size) ==
    /\ Idle
    /\ s \in active
    /\ resetState
    /\ options' = [options EXCEPT ![s].pageHeight = size.pageHeight,
                                  ![s].pageWidth = size.pageWidth,
                                  ![s].marginTop = size.marginTop,
                                  ![s].marginBottom = size.marginBottom,
                                  ![s].marginLeft = size.marginLeft,
                                  ![s].marginRight = size.marginRight]
    /\ UNCHANGED <<timers, rafs, active, destroyed, storage, deco, rendered,
                   phase, est>>

\* updatePageGap assigns the option and does not reset the state
updatePageGap(s, gap) ==
    /\ Idle
    /\ s \in active
    /\ options' = [options EXCEPT ![s].pageGap = gap]
    /\ UNCHANGED <<win, pp, timers, rafs, active, destroyed, storage, deco,
                   rendered, phase, est>>

\* ------------------------------------------------------------------------
\* a second editor is created in the same window: plugin init, first render,
\* onCreate
\* ------------------------------------------------------------------------
onCreate(s) ==
    /\ Idle
    /\ s \notin active
    /\ active' = active \cup {s}
    /\ resetState
    /\ options' = [options EXCEPT ![s] = defaultOptions]
    /\ storage' = [storage EXCEPT ![s] = Snapshot(defaultOptions, EmptyMap, EmptyMap, 1)]
    /\ deco' = [deco EXCEPT ![s] = InitDeco]
    /\ rendered' = [rendered EXCEPT ![s] = InitDeco.pages]
    /\ UNCHANGED <<timers, rafs, destroyed, phase, est>>

\* ------------------------------------------------------------------------
\* One editor: its transactions, the passes of the controller, its deferred
\* callbacks and the size commands
\* ------------------------------------------------------------------------
Pass ==
    \/ \E s \in Sessions, v \in Overflows : Transaction(s, v)
    \/ \E s \in Sessions, v \in Overflows : ViewUpdate(s, v)
    \/ \E s \in Sessions, o \in ObjIds, v \in Overflows : RafFire(s, o, v)
    \/ \E o \in ObjIds : TimerFire(o)

Next ==
    \/ Pass
    \/ \E s \in Sessions, h \in PageHeights : updatePageHeight(s, h)
    \/ \E s \in Sessions, size \in PageSizes : updatePageSize(s, size)

Spec == Init /\ [][Next]_vars

\* One editor and a command that assigns an option without resetting the
\* state
NextConfig ==
    \/ Pass
    \/ \E s \in Sessions, g \in PageGaps : updatePageGap(s, g)

SpecConfig == Init /\ [][NextConfig]_vars

\* ------------------------------------------------------------------------
\* The closed loop of the lock-based controller over a fixed document.  The
\* bottom of the last content element stays where it is and every rendered
\* page moves the bottom of the last page break down by pageHeight +
\* pageGap; est holds the content bottom of the document
\* ------------------------------------------------------------------------
Layout(contentBottom) == [fn |-> "layout", contentBottom |-> contentBottom]

\* lastContentRect.bottom - lastPageBreakRect.bottom with n pages rendered
LayoutOverflow(s) ==
    est.contentBottom - rendered[s] * (options[s].pageHeight + options[s].pageGap)

\* what the estimator returns for the pages now rendered, the lock aside
LoopTarget(s) ==
    calculatePageCount(FreshState, options[s], 0, 0,
                       RenderedDom(rendered[s], LayoutOverflow(s))).ret

InitLoop ==
    /\ win = 1
    /\ pp = [o \in ObjIds |-> FreshState]
    /\ timers = {}
    /\ rafs = IdleRafs
    /\ active = {1}
    /\ destroyed = [s \in Sessions |-> FALSE]
    /\ options = [s \in Sessions |-> defaultOptions]
    /\ storage = [s \in Sessions |-> Snapshot(defaultOptions, EmptyMap, EmptyMap, 1)]
    /\ deco = [s \in Sessions |-> InitDeco]
    /\ rendered = [s \in Sessions |-> InitDeco.pages]
    /\ phase = [s \in Sessions |-> "idle"]
    /\ est \in {Layout(c) : c \in ContentBottoms}

LoopTransaction == \E s \in Sessions : Transaction(s, LayoutOverflow(s))
LoopViewUpdate == \E s \in Sessions : ViewUpdate(s, LayoutOverflow(s))
LoopRafFire == \E s \in Sessions, o \in ObjIds : RafFire(s, o, LayoutOverflow(s))
LoopTimerFire == \E o \in ObjIds : TimerFire(o)

NextLoop ==
    \/ LoopTransaction
    \/ LoopViewUpdate
    \/ LoopRafFire
    \/ LoopTimerFire

SpecLoop == InitLoop /\ [][NextLoop]_vars

\* view.update follows apply in the same task, and the browser runs every
\* animation-frame and timer callback it was given.  Nothing makes the user
\* or the host dispatch another transaction
SpecLoopFair ==
    /\ SpecLoop
    /\ WF_vars(LoopViewUpdate)
    /\ WF_vars(LoopRafFire)
    /\ WF_vars(LoopTimerFire)

\* ------------------------------------------------------------------------
\* The brDecoration plugin next to the lock-based controller.  A document
\* is the sequence of its nodes; est holds the document of the editor and
\* the decoration set of the plugin, a set of widget positions
\* ------------------------------------------------------------------------
\* one widget directly after each hardBreak node
buildDecorations(doc) == {i \in 1..Len(doc) : doc[i] = "hardBreak"}

Breaks(doc, old) == [fn |-> "breaks", doc |-> doc, decorations |-> old]

\* brDecoration plugin, state.apply
brApply(locked, docChanged, doc, old) ==
    IF locked THEN old
    ELSE IF docChanged THEN buildDecorations(doc)
    ELSE old

InitBreaks ==
    /\ win = 1
    /\ pp = [o \in ObjIds |-> FreshState]
    /\ timers = {}
    /\ rafs = IdleRafs
    /\ active = {1}
    /\ destroyed = [s \in Sessions |-> FALSE]
    /\ options = [s \in Sessions |-> defaultOptions]
    /\ storage = [s \in Sessions |-> Snapshot(defaultOptions, EmptyMap, EmptyMap, 1)]
    /\ deco = [s \in Sessions |-> InitDeco]
    /\ rendered = [s \in Sessions |-> InitDeco.pages]
    /\ phase = [s \in Sessions |-> "idle"]
    /\ est \in {Breaks(doc, buildDecorations(doc)) : doc \in Docs}

\* a transaction of the user: the plugins' apply run in the order of the
\* plugin list, the pagination plugin first
BreaksTransaction(s, overflow, doc) ==
    /\ Idle
    /\ s \in active
    /\ ~destroyed[s]
    /\ RafCount(rafs) < MaxRaf
    /\ apply(s, overflow)
    /\ est' = Breaks(doc, brApply(Locked(pp'[win]), doc # est.doc, doc,
                                  est.decorations))
    /\ UNCHANGED rafs

NextBreaks ==
    \/ \E s \in Sessions, v \in Overflows, doc \in Docs :
          BreaksTransaction(s, v, doc)
    \/ \E s \in Sessions, v \in Overflows : ViewUpdate(s, v)
    \/ \E s \in Sessions, o \in ObjIds, v \in Overflows : RafFire(s, o, v)
    \/ \E o \in ObjIds : TimerFire(o)

SpecBreaks == InitBreaks /\ [][NextBreaks]_vars

\* ------------------------------------------------------------------------
\* The host destroys the view of an editor: view.isDestroyed is true from
\* then on, and the host dispatches no transaction of its own any more.
\* The callbacks already scheduled still fire
\* ------------------------------------------------------------------------
Destroy(s) ==
    /\ Idle
    /\ s \in active
    /\ ~destroyed[s]
    /\ destroyed' = [destroyed EXCEPT ![s] = TRUE]
    /\ UNCHANGED <<win, pp, timers, rafs, active, options, storage, deco,
                   rendered, phase, est>>

NextDestroy ==
    \/ Pass
    \/ \E s \in Sessions : Destroy(s)

SpecDestroy == Init /\ [][NextDestroy]_vars

\* ------------------------------------------------------------------------
\* The base-content-height variant of the controller.  Its two module
\* globals are kept in pp[win]; it has no lock and no timer
\* ------------------------------------------------------------------------
BaseGlobals(base, count) ==
    [globalBaseContentHeight |-> base, globalIterationCount |-> count]

InitBase ==
    /\ win = 1
    /\ pp = [o \in ObjIds |-> BaseGlobals(0, 0)]
    /\ timers = {}
    /\ rafs = IdleRafs
    /\ active = {1}
    /\ destroyed = [s \in Sessions |-> FALSE]
    /\ options = [s \in Sessions |-> defaultOptions]
    /\ storage = [s \in Sessions |-> Snapshot(defaultOptions, EmptyMap, EmptyMap, 0)]
    /\ deco = [s \in Sessions |-> InitDeco]
    /\ rendered = [s \in Sessions |-> InitDeco.pages]
    /\ phase = [s \in Sessions |-> "idle"]
    /\ est = NoEst

\* the page count the widget of a new decoration set renders
basePageCount(g, o) ==
    IF g.globalBaseContentHeight > 0
    THEN calculatePageCountFromContent(g.globalBaseContentHeight, o, 0, 0)
    ELSE 1

needsRecalc(st, o, docChanged) == st.opts # o \/ docChanged

\* apply of one transaction of editor s and the host's rendering of the
\* decoration set apply returned
applyBase(s, docChanged) ==
    LET g == pp[win]
        cleared == IF \/ storage[s].opts.pageHeight # options[s].pageHeight
                    \/ storage[s].opts.pageWidth # options[s].pageWidth
                 THEN BaseGlobals(0, 0)
                 ELSE g
        pages == basePageCount(cleared, options[s])
    IN  /\ UNCHANGED <<win, timers, active, destroyed, options>>
        /\ IF needsRecalc(storage[s], options[s], docChanged) THEN
               /\ pp' = [pp EXCEPT ![win] = cleared]
               /\ deco' = [deco EXCEPT ![s] = createDecoration(pages)]
               /\ storage' = [storage EXCEPT
                                 ![s] = Snapshot(options[s],
                                                 storage[s].headerHeight,
                                                 storage[s].footerHeight,
                                                 storage[s].lastPageCount)]
               /\ rendered' = [rendered EXCEPT ![s] = pages]
               /\ phase' = [phase EXCEPT ![s] = "rebuilt"]
           ELSE
               \* return oldDeco
               /\ phase' = [phase EXCEPT ![s] = "applied"]
               /\ UNCHANGED <<pp, deco, storage, rendered>>

TransactionBase(s, docChanged) ==
    /\ Idle
    /\ s \in active
    /\ ~destroyed[s]
    /\ RafCount(rafs) < MaxRaf
    /\ applyBase(s, docChanged)
    /\ UNCHANGED <<rafs, est>>

\* the check for an infinite loop
OverIterations(count) == count > MAX_PAGINATION_ITERATIONS

\* contentHeight > globalBaseContentHeight * 1.5, in whole pixels
Latches(g, contentHeight) ==
    \/ g.globalBaseContentHeight = 0
    \/ 2 * contentHeight > 3 * g.globalBaseContentHeight

\* view.update with the content measuring contentHeight
ViewUpdateBase(s, contentHeight) ==
    LET g == pp[win]
        count == g.globalIterationCount + 1
        currentPageCount == getExistingPageCount(RenderedDom(rendered[s], 0))
        base == IF Latches(g, contentHeight) THEN contentHeight
                ELSE g.globalBaseContentHeight
        target == calculatePageCountFromContent(base, options[s], 0, 0)
    IN  /\ phase[s] # "idle"
        /\ phase' = [phase EXCEPT ![s] = "idle"]
        /\ UNCHANGED <<win, timers, active, destroyed, options, storage, deco,
                       rendered, est>>
        /\ IF OverIterations(count) THEN
               /\ pp' = [pp EXCEPT ![win] = BaseGlobals(base, 0)]
               /\ UNCHANGED rafs
           ELSE IF Abs(currentPageCount - target) <= 1 THEN
               /\ pp' = [pp EXCEPT ![win] = BaseGlobals(base, 0)]
               /\ UNCHANGED rafs
           ELSE
               /\ pp' = [pp EXCEPT ![win] = BaseGlobals(base, count)]
               /\ rafs' = Schedule(rafs, s, win)

\* the requestAnimationFrame callback of this variant dispatches without
\* looking at the view.  What view.dispatch does with a destroyed view is
\* the host's: it applies the transaction or drops it
RafFireBase(s, dropped) ==
    /\ Idle
    /\ rafs[s][win] > 0
    /\ rafs' = [rafs EXCEPT ![s][win] = @ - 1]
    /\ UNCHANGED est
    /\ IF destroyed[s] /\ dropped THEN
           UNCHANGED <<win, pp, timers, active, destroyed, options, storage,
                       deco, rendered, phase>>
       ELSE
           applyBase(s, FALSE)

NextBase ==
    \/ \E s \in Sessions, c \in BOOLEAN : TransactionBase(s, c)
    \/ \E s \in Sessions, h \in ContentHeights : ViewUpdateBase(s, h)
    \/ \E s \in Sessions, b \in BOOLEAN : RafFireBase(s, b)
    \/ \E s \in Sessions : Destroy(s)

SpecBase == InitBase /\ [][NextBase]_vars

\* ------------------------------------------------------------------------
\* The base-content-height variant over a document that is edited: est
\* holds the height the content of the document measures, which a
\* document-changing transaction replaces
\* ------------------------------------------------------------------------
Doc(contentHeight) == [fn |-> "doc", contentHeight |-> contentHeight]

InitBaseDoc ==
    /\ win = 1
    /\ pp = [o \in ObjIds |-> BaseGlobals(0, 0)]
    /\ timers = {}
    /\ rafs = IdleRafs
    /\ active = {1}
    /\ destroyed = [s \in Sessions |-> FALSE]
    /\ options = [s \in Sessions |-> defaultOptions]
    /\ storage = [s \in Sessions |-> Snapshot(defaultOptions, EmptyMap, EmptyMap, 0)]
    /\ deco = [s \in Sessions |-> InitDeco]
    /\ rendered = [s \in Sessions |-> InitDeco.pages]
    /\ phase = [s \in Sessions |-> "idle"]
    /\ est \in {Doc(h) : h \in ContentHeights}

\* the user types or deletes: a transaction with docChanged
EditBase(s, contentHeight) ==
    /\ Idle
    /\ s \in active
    /\ ~destroyed[s]
    /\ RafCount(rafs) < MaxRaf
    /\ est' = Doc(contentHeight)
    /\ applyBase(s, TRUE)
    /\ UNCHANGED rafs

DocEdit == \E s \in Sessions, h \in ContentHeights : EditBase(s, h)
DocViewUpdate == \E s \in Sessions : ViewUpdateBase(s, est.contentHeight)
DocRafFire == \E s \in Sessions : RafFireBase(s, FALSE)

NextBaseDoc ==
    \/ DocEdit
    \/ DocViewUpdate
    \/ DocRafFire

SpecBaseDoc == InitBaseDoc /\ [][NextBaseDoc]_vars

\* view.update follows apply in the same task and the browser runs every
\* animation-frame callback; nothing makes the user edit again
SpecBaseDocFair ==
    /\ SpecBaseDoc
    /\ WF_vars(DocViewUpdate)
    /\ WF_vars(DocRafFire)

\* Two editors in one window
NextSessions ==
    \/ Pass
    \/ \E s \in Sessions : onCreate(s)

SpecSessions == Init /\ [][NextSessions]_vars

\* ------------------------------------------------------------------------
\* The estimators on their own: each is called on every geometry and every
\* DOM of the sets below, in the states a handler calls it in (apply and
\* view.update return before the call when the state is locked)
\* ------------------------------------------------------------------------
EstOptions ==
    {[defaultOptions EXCEPT !.pageHeight = h, !.pageGap = g] :
        h \in PageHeights, g \in PageGaps}
EstHeaderHeights == {0, 700}
EstFooterHeights == {0, 20}
EstHeights == {0, 49, 50, 739, 740, 741, 2000, 80000, 400000}
EstOverflows == {-40000, -2000, -791, -790, -789, -11, -10, -5, 0, 1, 10, 11,
                 15, 741, 36500, 80000}
EstChildren == {1, 2, 3, 5, 50, 100}
EstPageCounts == {1, 51}
\* the content heights earlier passes have left in globalBaseContentHeight
EstBases == {0, 740, 1000, 2000}

EstDoms ==
    {Dom(FALSE, 0, FALSE, h > 0, h, 0) : h \in EstHeights}
    \cup {Dom(TRUE, n, FALSE, TRUE, 2000, 0) : n \in EstChildren \cup {0}}
    \cup {Dom(TRUE, n, TRUE, FALSE, 0, 0) : n \in EstChildren}
    \cup {Dom(TRUE, n, TRUE, TRUE, 2000, v) : n \in EstChildren, v \in EstOverflows}
    \cup {Dom(TRUE, 3, TRUE, h > 0, h, -5) : h \in EstHeights}

\* the editor before the first pagination is rendered
UnpaginatedDoms == {d \in EstDoms : ~d.hasPagination}

Called(fn, st, o, headerHeight, footerHeight, d, ret, out) ==
    [fn |-> fn, st |-> st, o |-> o, headerHeight |-> headerHeight,
     footerHeight |-> footerHeight, d |-> d, ret |-> ret, out |-> out]

\* one call is recorded: the calls are compared by their arguments
EstimateLock ==
    /\ est = NoEst
    /\ \E n \in EstPageCounts, o \in EstOptions, hh \in EstHeaderHeights,
          fh \in EstFooterHeights, d \in EstDoms :
            LET st == [FreshState EXCEPT !.pageCount = n]
                r == calculatePageCount(st, o, hh, fh, d)
            IN  est' = Called("calculatePageCount", st, o, hh, fh, d, r.ret,
                              r.st)
    /\ UNCHANGED lockVars

EstimateDebug ==
    /\ est = NoEst
    /\ \E o \in EstOptions, hh \in EstHeaderHeights,
          fh \in EstFooterHeights, d \in EstDoms :
            LET r == calculatePageCountDebug(o, hh, fh, d)
            IN  est' = Called("calculatePageCountDebug", FreshState, o, hh, fh,
                              d, r, FreshState)
    /\ UNCHANGED lockVars

EstimateFromContent ==
    /\ est = NoEst
    /\ \E o \in EstOptions, hh \in EstHeaderHeights,
          fh \in EstFooterHeights, d \in UnpaginatedDoms :
            LET r == calculatePageCountFromContent(d.contentHeight, o, hh, fh)
            IN  est' = Called("calculatePageCountFromContent", FreshState, o,
                              hh, fh, d, r, FreshState)
    /\ UNCHANGED lockVars

\* the states the dimensionsKey estimators are called in: the key of an
\* earlier call with the same page size, or none yet
DivisionStates(o) ==
    {[FreshDivisionState EXCEPT !.pageCount = n, !.dimensionsKey = k] :
        n \in EstPageCounts,
        k \in {FreshDivisionState.dimensionsKey, DimensionsKey(o)}}

EstimateDivision ==
    /\ est = NoEst
    /\ \E o \in EstOptions, hh \in EstHeaderHeights,
          fh \in EstFooterHeights, d \in EstDoms :
            \E st \in DivisionStates(o) :
                LET r == calculatePageCountDivision(st, o, hh, fh, d)
                IN  est' = Called("calculatePageCountDivision", st, o, hh, fh,
                                  d, r.ret, r.st)
    /\ UNCHANGED lockVars

EstimateDimensions ==
    /\ est = NoEst
    /\ \E o \in EstOptions, hh \in EstHeaderHeights,
          fh \in EstFooterHeights, d \in EstDoms :
            \E st \in DivisionStates(o) :
                LET r == calculatePageCountDimensions(st, o, hh, fh, d)
                IN  est' = Called("calculatePageCountDimensions", st, o, hh,
                                  fh, d, r.ret, r.st)
    /\ UNCHANGED lockVars

\* globalBaseContentHeight before and after the pass
BaseState(globalBaseContentHeight) ==
    [globalBaseContentHeight |-> globalBaseContentHeight]

EstimateTarget ==
    /\ est = NoEst
    /\ \E base \in EstBases, o \in EstOptions, d \in EstDoms :
            est' = Called("targetPageCount", BaseState(base), o, 0, 0, d,
                          targetPageCount(base, d.contentHeight, o),
                          BaseState(BaseContentHeight(base, d.contentHeight)))
    /\ UNCHANGED lockVars

NextEst ==
    \/ EstimateLock
    \/ EstimateDebug
    \/ EstimateFromContent
    \/ EstimateDivision
    \/ EstimateDimensions
    \/ EstimateTarget

SpecEst == Init /\ [][NextEst]_vars

\* ------------------------------------------------------------------------
\* Content measurement over the editor element's direct children
\* ------------------------------------------------------------------------
\* a direct child of the editor element: its id, its class list, whether it
\* carries the data-rm-pagination attribute, and its rendered height
Element(id, classList, pagination, height) ==
    [id |-> id, classList |-> classList, pagination |-> pagination,
     height |-> height]

RECURSIVE SumHeights(_)
SumHeights(elements) ==
    IF elements = <<>> THEN 0
    ELSE Head(elements).height + SumHeights(Tail(elements))

\* base-content-height variant: the children getActualContentHeight skips
isPaginationChild(child) ==
    \/ child.id = "pages"
    \/ "rm-pages-wrapper" \in child.classList
    \/ "rm-page-break" \in child.classList
    \/ "rm-first-page-header" \in child.classList
    \/ child.pagination

getActualContentHeight(children) ==
    SumHeights(SelectSeq(children, LAMBDA child : ~isPaginationChild(child)))

\* dimensionsKey variant: the children left out of contentElements
isPaginationElement(el) ==
    \/ el.id = "pages"
    \/ el.classList \cap {"rm-pages-wrapper", "rm-first-page-header",
                          "rm-page-header", "rm-page-footer", "rm-page-break",
                          "breaker", "rm-pagination-gap"} # {}
    \/ el.pagination

contentElements(allChildren) ==
    SelectSeq(allChildren, LAMBDA el : ~isPaginationElement(el))

totalContentHeight(allChildren) == SumHeights(contentElements(allChildren))

\* ------------------------------------------------------------------------
\* createDecoration: the page breaks the pagination widget renders
\* ------------------------------------------------------------------------
\* headerHeightMap.get(page) || 0
MapGet(heightMap, page) ==
    IF page \in DOMAIN heightMap THEN heightMap[page] ELSE 0

\* one page-break wrapper.  headerHeight and footerHeight are the arguments
\* handed to getHeight; marginTop lists the fields of getHeight's result the
\* offset expression adds up; contentVariable is the page number in the CSS
\* variable that overrides it (0: the first/general variable).
pageBreakDefinition(firstPage, headerHeight, footerHeight, pageNumber) ==
    [firstPage |-> firstPage,
     headerHeight |-> headerHeight,
     footerHeight |-> footerHeight,
     marginTop |-> IF firstPage THEN <<"_pageHeaderHeight", "_pageHeight">>
                   ELSE <<"_pageHeight">>,
     contentVariable |-> pageNumber]

\* the loop over the pages: wrapper i + 1 closes page i + 1 with that page's
\* footer and opens page i + 2 with that page's header
fragment(pageOptions, headerHeightMap, footerHeightMap, pageCount) ==
    LET _headerHeight == MapGet(headerHeightMap, 0)
        _footerHeight == MapGet(footerHeightMap, 0)
        wrapper(i) ==
            LET pageNumber == i + 1
                headerPageNumber == i + 2
                _pageHeaderHeight ==
                    IF headerPageNumber \in pageOptions.customHeader
                    THEN MapGet(headerHeightMap, headerPageNumber)
                    ELSE _headerHeight
                _pageFooterHeight ==
                    IF pageNumber \in pageOptions.customFooter
                    THEN MapGet(footerHeightMap, pageNumber)
                    ELSE _footerHeight
                definition ==
                    IF \/ headerPageNumber \in pageOptions.customHeader
                       \/ pageNumber \in pageOptions.customFooter
                       \/ pageNumber \in pageOptions.customHeader
                    THEN pageBreakDefinition(i = 0, _pageHeaderHeight,
                                             _pageFooterHeight, pageNumber)
                    ELSE pageBreakDefinition(i = 0, _headerHeight,
                                             _footerHeight, 0)
            IN  [pageNumber |-> pageNumber,
                 headerPageNumber |-> headerPageNumber] @@ definition
    IN  [k \in 1..pageCount |-> wrapper(k - 1)]

\* lock-based controller: the count is the caller's target, clamped
pageWidget(pageOptions, headerHeightMap, footerHeightMap, pageCount) ==
    fragment(pageOptions, headerHeightMap, footerHeightMap,
             safePageCount(pageCount))

\* base-content-height variant: the count comes from the latched base height
pageWidgetBase(pageOptions, headerHeightMap, footerHeightMap, baseHeight) ==
    fragment(pageOptions, headerHeightMap, footerHeightMap,
             IF baseHeight > 0
             THEN calculatePageCountFromContent(baseHeight, pageOptions, 0, 0)
             ELSE 1)

\* debug variant: window.__paginationDebug, whose callCount stops
\* view.update, and the logDebug calls of one calculatePageCount
DebugState(callCount) == [callCount |-> callCount]

logDebugCalls(o, headerHeight, footerHeight, d) ==
    IF TooSmall(PageContentHeight(o, headerHeight, footerHeight)) THEN 1
    ELSE IF d.hasPagination /\ d.hasBreaker THEN
        IF d.overflow > 0 THEN 4 ELSE 5
    ELSE 3

\* debug variant: the widget measures the DOM itself and logs
pageWidgetDebug(pageOptions, headerHeightMap, footerHeightMap, debugState, d) ==
    [ret |-> fragment(pageOptions, headerHeightMap, footerHeightMap,
                      calculatePageCountDebug(pageOptions, 0, 0, d)),
     st |-> DebugState(debugState.callCount
                           + logDebugCalls(pageOptions, 0, 0, d) + 1)]

\* ------------------------------------------------------------------------
\* view.update, the stable branch: the header and footer heights measured in
\* the rendered DOM, and the CSS variables computed from them
\* ------------------------------------------------------------------------
\* footerHeightForCurrentPages, headerHeightForCurrentPages: the measured
\* entries of pages 0..pageCount
ForCurrentPages(heightMap, pageCount) ==
    [p \in {i \in 0..pageCount : i \in DOMAIN heightMap} |-> heightMap[p]]

\* the first page of 1..pageCount without a measured entry (0: none)
missingPageNumber(headerHeight, footerHeight, pageCount) ==
    LET measured == {1} \cup DOMAIN footerHeight \cup DOMAIN headerHeight
        missing == {i \in 1..pageCount : i \notin measured}
    IN  IF missing = {} THEN 0
        ELSE CHOOSE i \in missing : \A j \in missing : i <= j

pagesSetToCheck(headerHeight, footerHeight, pageCount) ==
    LET missing == missingPageNumber(headerHeight, footerHeight, pageCount)
    IN  (({1} \cup DOMAIN footerHeight \cup DOMAIN headerHeight)
            \cup (IF missing # 0 THEN {missing} ELSE {})) \ {0}

\* the --rm-page-content-* variables: the name (0: first, -1: general, else
\* the page number) and the heights handed to getHeight for its value
pageContentHeightVariable(headerHeight, footerHeight, pageCount) ==
    LET missing == missingPageNumber(headerHeight, footerHeight, pageCount)
        value(page) ==
            [headerHeight |-> IF page \in DOMAIN headerHeight
                              THEN headerHeight[page]
                              ELSE MapGet(headerHeight, 0),
             footerHeight |-> IF page \in DOMAIN footerHeight
                              THEN footerHeight[page]
                              ELSE MapGet(footerHeight, 0),
             first |-> page = 1]
        pages == pagesSetToCheck(headerHeight, footerHeight, pageCount)
    IN  {[name |-> 0] @@ value(1) : page \in pages \cap {1}}
        \cup {[name |-> IF page = missing THEN -1 ELSE page] @@ value(page) :
                 page \in pages}

\* the stable branch as a whole: the counter is reset, the CSS variables are
\* set on view.dom, extension.storage is left as it is
stablePass(st, store, measuredHeader, measuredFooter, pageCount) ==
    LET headerHeight == ForCurrentPages(measuredHeader, pageCount)
        footerHeight == ForCurrentPages(measuredFooter, pageCount)
    IN  [st |-> [st EXCEPT !.updateCount = 0],
         storage |-> store,
         style |-> pageContentHeightVariable(headerHeight, footerHeight,
                                             pageCount)]

\* ------------------------------------------------------------------------
\* view.update of the dimensionsKey variant: the state object as the pass
\* leaves it, whether a corrective dispatch was scheduled, whether the
\* unlock timer was started
\* ------------------------------------------------------------------------
viewUpdateDimensions(st, o, d) ==
    LET calc == calculatePageCountDimensions(st, o, 0, 0, d)
        currentPageCount == getExistingPageCount(d)
        calculatedPageCount == calc.ret
        counted == [calc.st EXCEPT !.updateCount = @ + 1]
    IN  IF Locked(st) THEN
            [ret |-> st.pageCount, st |-> st, raf |-> FALSE, timer |-> FALSE]
        ELSE IF currentPageCount # calculatedPageCount THEN
            IF counted.updateCount > MAX_UPDATES_DIMENSIONS
            THEN [ret |-> calculatedPageCount,
                  st |-> [counted EXCEPT !.locked = TRUE],
                  raf |-> FALSE, timer |-> TRUE]
            ELSE [ret |-> calculatedPageCount, st |-> counted,
                  raf |-> TRUE, timer |-> FALSE]
        ELSE [ret |-> calculatedPageCount,
              st |-> [calc.st EXCEPT !.updateCount = 0],
              raf |-> FALSE, timer |-> FALSE]

\* ------------------------------------------------------------------------
\* Third specification: one call of a content measurer or of the decoration
\* builder, recorded in est with its inputs and its result
\* ------------------------------------------------------------------------
\* the two widgets the builder renders as direct children of the editor
PagesWrapper == Element("pages", {"rm-pages-wrapper"}, TRUE, 500)
FirstPageHeader == Element("", {"rm-first-page-header"}, FALSE, 500)

ContentChildren == {Element("", {}, FALSE, h) : h \in {20, 740}}

ScaffoldingChildren ==
    {PagesWrapper, FirstPageHeader,
     Element("pages", {}, FALSE, 500),
     Element("", {"rm-pages-wrapper"}, FALSE, 500),
     Element("", {"rm-page-break"}, FALSE, 500),
     Element("", {}, TRUE, 500)}

ChildCounts == {1, 2, 3}

Containers ==
    UNION {[1..n -> ContentChildren \cup ScaffoldingChildren] : n \in ChildCounts}

Measured(fn, children, ret) == [fn |-> fn, children |-> children, ret |-> ret]

MeasureActual ==
    /\ est = NoEst
    /\ \E children \in Containers :
          est' = Measured("getActualContentHeight", children,
                          getActualContentHeight(children))
    /\ UNCHANGED lockVars

MeasureContentElements ==
    /\ est = NoEst
    /\ \E allChildren \in Containers :
          est' = Measured("totalContentHeight", allChildren,
                          totalContentHeight(allChildren))
    /\ UNCHANGED lockVars

\* inputs of the builder
CustomHeaders == {{}, {2}, {3}}
CustomFooters == {{}, {1}, {2}}
BuildOptions ==
    {[defaultOptions EXCEPT !.customHeader = ch, !.customFooter = cf] :
        ch \in CustomHeaders, cf \in CustomFooters}
HeaderHeightMaps == {EmptyMap, 0 :> 30, (0 :> 30) @@ (2 :> 45), 2 :> 45}
FooterHeightMaps == {EmptyMap, 0 :> 20, (0 :> 20) @@ (1 :> 35)}
BuildPageCounts == {-1, 0, 1, 4, 100, 101}
BuildLockStates ==
    {FreshState, [FreshState EXCEPT !.locked = TRUE, !.updateCount = 11,
                                    !.pageCount = 7]}
BuildBases == {0, 740, 2000}
BuildDebugStates == {DebugState(0), DebugState(51)}
BuildDoms ==
    {RenderedDom(1, -5), RenderedDom(3, 15),
     Dom(FALSE, 0, FALSE, TRUE, 2000, 0)}
NoDom == Dom(FALSE, 0, FALSE, FALSE, 0, 0)

Built(fn, pageOptions, hm, fm, pageCount, d, st, ret, out) ==
    [fn |-> fn, pageOptions |-> pageOptions,
     headerHeightMap |-> hm, footerHeightMap |-> fm,
     pageCount |-> pageCount, d |-> d, st |-> st, ret |-> ret, out |-> out]

\* the lock-based createDecoration, called while window.__pp_state is st
Build ==
    /\ est = NoEst
    /\ \E pageOptions \in BuildOptions, hm \in HeaderHeightMaps,
          fm \in FooterHeightMaps, pageCount \in BuildPageCounts,
          st \in BuildLockStates :
            est' = Built("createDecoration", pageOptions, hm, fm, pageCount,
                         NoDom, st,
                         pageWidget(pageOptions, hm, fm, pageCount), st)
    /\ UNCHANGED lockVars

BuildBase ==
    /\ est = NoEst
    /\ \E pageOptions \in BuildOptions, hm \in HeaderHeightMaps,
          fm \in FooterHeightMaps, base \in BuildBases :
            est' = Built("createDecorationBase", pageOptions, hm, fm, 0,
                         NoDom, BaseState(base),
                         pageWidgetBase(pageOptions, hm, fm, base),
                         BaseState(base))
    /\ UNCHANGED lockVars

BuildDebug ==
    /\ est = NoEst
    /\ \E pageOptions \in BuildOptions, hm \in HeaderHeightMaps,
          fm \in FooterHeightMaps, st \in BuildDebugStates,
          d \in BuildDoms :
            LET r == pageWidgetDebug(pageOptions, hm, fm, st, d)
            IN  est' = Built("createDecorationDebug", pageOptions, hm, fm, 0,
                             d, st, r.ret, r.st)
    /\ UNCHANGED lockVars

\* the heights getHeaderHeight / getFooterHeight measure in the rendered DOM
MeasuredHeights == {EmptyMap, 0 :> 30, (0 :> 30) @@ (2 :> 45), (0 :> 30) @@ (5 :> 45)}
StablePageCounts == {1, 2, 3}

Passed(st, store, measuredHeader, measuredFooter, pageCount, out) ==
    [fn |-> "viewUpdateStable", st |-> st, storage |-> store,
     measuredHeader |-> measuredHeader, measuredFooter |-> measuredFooter,
     pageCount |-> pageCount, out |-> out]

\* view.update finds the rendered count equal to the target
ViewUpdateStable ==
    /\ est = NoEst
    /\ \E mh \in MeasuredHeights, mf \in MeasuredHeights,
          pageCount \in StablePageCounts, updateCount \in {0, 3} :
            LET st == [FreshState EXCEPT !.pageCount = pageCount,
                                         !.updateCount = updateCount]
                store == Snapshot(defaultOptions, EmptyMap, EmptyMap, pageCount)
            IN  est' = Passed(st, store, mh, mf, pageCount,
                              stablePass(st, store, mh, mf, pageCount))
    /\ UNCHANGED lockVars

\* inputs of the dimensionsKey variant's view.update
UpdateDoms ==
    {Dom(TRUE, n, TRUE, TRUE, 2000, v) : n \in {1, 3}, v \in {-2000, -5, 15, 741}}
    \cup {Dom(FALSE, 0, FALSE, TRUE, 2000, 0)}
UpdateStates(o) ==
    {[pageCount |-> 3, locked |-> l, updateCount |-> c, dimensionsKey |-> k] :
        l \in BOOLEAN, c \in {0, 3, MAX_UPDATES_DIMENSIONS},
        k \in {FreshDivisionState.dimensionsKey, DimensionsKey(o)}}

ViewUpdateDimensions ==
    /\ est = NoEst
    /\ \E o \in EstOptions, d \in UpdateDoms :
          \E st \in UpdateStates(o) :
            LET r == viewUpdateDimensions(st, o, d)
            IN  est' = [fn |-> "viewUpdateDimensions", st |-> st, o |-> o,
                        d |-> d, ret |-> r.ret, out |-> r.st, raf |-> r.raf,
                        timer |-> r.timer]
    /\ UNCHANGED lockVars

\* ------------------------------------------------------------------------
\* the texts createDecoration gives the header and the footer of a page.
\* A header or footer is the record of its left, right and center text;
\* customHeader and customFooter map page numbers to such records
\* ------------------------------------------------------------------------
\* JavaScript a || b on strings: the empty string is falsy
Or(a, b) == IF a # "" THEN a ELSE b

HeaderOptions(left, right, center) ==
    [headerLeft |-> left, headerRight |-> right, headerCenter |-> center]
FooterOptions(left, right, center) ==
    [footerLeft |-> left, footerRight |-> right, footerCenter |-> center]

\* the header of page headerPageNumber >= 2, built in the loop step of the
\* page before it
headerOptions(commonHeaderOptions, customHeader, headerPageNumber) ==
    IF headerPageNumber \in DOMAIN customHeader THEN
        LET custom == customHeader[headerPageNumber]
        IN  HeaderOptions(Or(custom.headerLeft, commonHeaderOptions.headerLeft),
                          Or(custom.headerRight, commonHeaderOptions.headerRight),
                          Or(custom.headerCenter, commonHeaderOptions.headerCenter))
    ELSE commonHeaderOptions

\* the footer of page pageNumber, built in the loop step of that page
footerOptions(commonFooterOptions, customFooter, pageNumber) ==
    IF pageNumber \in DOMAIN customFooter THEN
        LET custom == customFooter[pageNumber]
        IN  FooterOptions(Or(custom.footerLeft, commonFooterOptions.footerLeft),
                          Or(custom.footerRight, commonFooterOptions.footerRight),
                          Or(custom.footerCenter, commonFooterOptions.footerCenter))
    ELSE commonFooterOptions

\* firstHeaderWidget: the header of page 1
firstHeaderOptions(commonHeaderOptions, customHeader) ==
    IF 1 \in DOMAIN customHeader THEN customHeader[1]
    ELSE commonHeaderOptions

\* the header and the footer shown on page p of the rendered pages
shownHeader(commonHeaderOptions, customHeader, p) ==
    IF p = 1 THEN firstHeaderOptions(commonHeaderOptions, customHeader)
    ELSE headerOptions(commonHeaderOptions, customHeader, p)
shownFooter(commonFooterOptions, customFooter, p) ==
    footerOptions(commonFooterOptions, customFooter, p)

TextPages == 1..3
CommonHeaders == {HeaderOptions("L", "R", c) : c \in {"", "C"}}
CommonFooters == {FooterOptions("l", "r", c) : c \in {"", "c"}}
\* what updateHeaderContent and updateFooterContent register for a page:
\* any of the texts may be empty, and center is "" when it is not given
RegisteredHeaders ==
    {HeaderOptions(l, "R2", c) : l \in {"", "L2"}, c \in {"", "C2"}}
RegisteredFooters ==
    {FooterOptions(l, "r2", c) : l \in {"", "l2"}, c \in {"", "c2"}}
CustomPageSets == {{}, {1}, {2}, {1, 3}}
CustomHeaderMaps ==
    {[p \in pages |-> h] : pages \in CustomPageSets, h \in RegisteredHeaders}
CustomFooterMaps ==
    {[p \in pages |-> f] : pages \in CustomPageSets, f \in RegisteredFooters}

BuildTexts ==
    /\ est = NoEst
    /\ \E ch \in CommonHeaders, cf \in CommonFooters,
          customHeader \in CustomHeaderMaps, customFooter \in CustomFooterMaps,
          p \in TextPages :
            est' = [fn |-> "texts", commonHeader |-> ch, commonFooter |-> cf,
                    customHeader |-> customHeader, customFooter |-> customFooter,
                    page |-> p,
                    header |-> shownHeader(ch, customHeader, p),
                    footer |-> shownFooter(cf, customFooter, p)]
    /\ UNCHANGED lockVars

NextBuild ==
    \/ MeasureActual
    \/ MeasureContentElements
    \/ Build
    \/ BuildBase
    \/ BuildDebug
    \/ ViewUpdateStable
    \/ ViewUpdateDimensions
    \/ BuildTexts

SpecBuild == Init /\ [][NextBuild]_vars

\* ------------------------------------------------------------------------
\* The controller of the debug variant.  window.__paginationDebug is kept
\* in pp[win]; est counts the view.update passes that ran the estimator
\* since the debug state was last reset (a history of the run, not a field
\* of the program)
\* ------------------------------------------------------------------------
DebugRun(iterations) == [fn |-> "debug", iterations |-> iterations]

InitDebug ==
    /\ win = 1
    /\ pp = [o \in ObjIds |-> DebugState(0)]
    /\ timers = {}
    /\ rafs = IdleRafs
    /\ active = {1}
    /\ destroyed = [s \in Sessions |-> FALSE]
    /\ options = [s \in Sessions |-> defaultOptions]
    /\ storage = [s \in Sessions |-> Snapshot(defaultOptions, EmptyMap, EmptyMap, 0)]
    /\ deco = [s \in Sessions |-> InitDeco]
    /\ rendered = [s \in Sessions |-> InitDeco.pages]
    /\ phase = [s \in Sessions |-> "idle"]
    /\ est = DebugRun(0)

\* SAFETY: Stop after 50 iterations
Stopped(debugState) == debugState.callCount > MAX_DEBUG_CALLS

\* apply of one transaction of editor s with the DOM measuring lastPageGap,
\* and the host's rendering of the decoration set apply returned
applyDebug(s, lastPageGap) ==
    LET d == RenderedDom(rendered[s], lastPageGap)
        pageCount == calculatePageCountDebug(options[s], 0, 0, d)
        currentPageCount == getExistingPageCount(d)
        \* calculatePageCount and "Plugin state apply"
        logged == pp[win].callCount + logDebugCalls(options[s], 0, 0, d) + 1
        \* "Triggering decoration update", then the widget is rendered
        widget == pageWidgetDebug(options[s], storage[s].headerHeight,
                                  storage[s].footerHeight,
                                  DebugState(logged + 1), d)
    IN  /\ UNCHANGED <<win, timers, active, destroyed, options, est>>
        /\ IF \/ (IF pageCount > 1 THEN pageCount ELSE 1) # currentPageCount
              \/ storage[s].opts # options[s] THEN
               /\ pp' = [pp EXCEPT ![win] = widget.st]
               /\ deco' = [deco EXCEPT ![s] = [pages |-> Len(widget.ret)]]
               /\ storage' = [storage EXCEPT
                                 ![s] = Snapshot(options[s],
                                                 storage[s].headerHeight,
                                                 storage[s].footerHeight,
                                                 storage[s].lastPageCount)]
               /\ rendered' = [rendered EXCEPT ![s] = Len(widget.ret)]
               /\ phase' = [phase EXCEPT ![s] = "rebuilt"]
           ELSE
               /\ pp' = [pp EXCEPT ![win] = DebugState(logged)]
               /\ phase' = [phase EXCEPT ![s] = "applied"]
               /\ UNCHANGED <<deco, storage, rendered>>

TransactionDebug(s, lastPageGap) ==
    /\ Idle
    /\ s \in active
    /\ RafCount(rafs) < MaxRaf
    /\ pp[win].callCount <= MaxCalls
    /\ applyDebug(s, lastPageGap)
    /\ UNCHANGED rafs

ViewUpdateDebug(s, lastPageGap) ==
    LET debugState == pp[win]
        d == RenderedDom(rendered[s], lastPageGap)
        pageCount == calculatePageCountDebug(options[s], 0, 0, d)
        currentPageCount == getExistingPageCount(d)
        \* calculatePageCount and "View update"
        logged == debugState.callCount + logDebugCalls(options[s], 0, 0, d) + 1
    IN  /\ phase[s] # "idle"
        /\ phase' = [phase EXCEPT ![s] = "idle"]
        /\ UNCHANGED <<win, timers, active, destroyed, options, storage, deco,
                       rendered>>
        /\ IF Stopped(debugState) THEN
               UNCHANGED <<pp, rafs, est>>
           ELSE IF currentPageCount # pageCount THEN
               \* "Page count mismatch - triggering update",
               \* "Dispatching transaction"
               /\ pp' = [pp EXCEPT ![win] = DebugState(logged + 2)]
               /\ rafs' = Schedule(rafs, s, win)
               /\ est' = DebugRun(est.iterations + 1)
           ELSE
               \* "STABLE"
               /\ pp' = [pp EXCEPT ![win] = DebugState(logged + 1)]
               /\ est' = DebugRun(est.iterations + 1)
               /\ UNCHANGED rafs

\* triggerUpdate's requestAnimationFrame callback dispatches
RafFireDebug(s, lastPageGap) ==
    /\ Idle
    /\ rafs[s][win] > 0
    /\ rafs' = [rafs EXCEPT ![s][win] = @ - 1]
    /\ applyDebug(s, lastPageGap)

\* updatePageHeight of the debug variant: resetDebugState, then the option
updatePageHeightDebug(s, height) ==
    /\ Idle
    /\ s \in active
    /\ pp' = [pp EXCEPT ![win] = DebugState(0)]
    /\ est' = DebugRun(0)
    /\ options' = [options EXCEPT ![s].pageHeight = height]
    /\ UNCHANGED <<win, timers, rafs, active, destroyed, storage, deco,
                   rendered, phase>>

\* the gaps the layout of editor s can measure
GapsOf(s) ==
    IF rendered[s] < MaxRendered THEN PageGapsMeasured
    ELSE {g \in PageGapsMeasured : g <= 0}

NextDebug ==
    \/ \E s \in Sessions : \E g \in GapsOf(s) : TransactionDebug(s, g)
    \/ \E s \in Sessions : \E g \in GapsOf(s) : ViewUpdateDebug(s, g)
    \/ \E s \in Sessions : \E g \in GapsOf(s) : RafFireDebug(s, g)
    \/ \E s \in Sessions, h \in PageHeights : updatePageHeightDebug(s, h)

SpecDebug == InitDebug /\ [][NextDebug]_vars

\* ========================================================================
\* Properties
\* ========================================================================
\* a step in which the host applies a transaction of editor s, and a step in
\* which it calls the plugin view's update of editor s
ApplyStep(s) == phase[s] = "idle" /\ phase'[s] # "idle"
UpdateStep(s) == phase[s] # "idle" /\ phase'[s] = "idle"

\* the cooldown timer of the current state object fires
CooldownFires == win' = win /\ win \in timers /\ win \notin timers'

\* ------------------------------------------------------------------------
\* C1: the lock-based controller reaches Stable or Locked within MAX_UPDATES
\* counted attempts: while unlocked the attempt counter never exceeds
\* MAX_UPDATES; every view.update pass of an unlocked controller ends Stable
\* (counter reset to 0), Locked, or still correcting with the counter
\* strictly larger than before; and apply never lowers the counter.  So no
\* run of correction passes is longer than MAX_UPDATES.
\* ------------------------------------------------------------------------
C1_BoundedCorrection ==
    [][/\ ~getState'.locked => getState'.updateCount <= MAX_UPDATES
       /\ \A s \in Sessions :
            (UpdateStep(s) /\ ~getState.locked) =>
                \/ getState'.updateCount = 0 /\ rafs' = rafs
                \/ getState'.locked /\ win \in timers' /\ rafs' = rafs
                \/ /\ ~getState'.locked
                   /\ getState'.updateCount > getState.updateCount
       /\ \A s \in Sessions :
            (ApplyStep(s) /\ ~getState.locked) =>
                \/ getState'.locked /\ win \in timers'
                \/ /\ ~getState'.locked
                   /\ getState'.updateCount >= getState.updateCount]_vars

\* the controller has locked on passing the bound, its cooldown pending
C1_Witness ==
    /\ getState.locked
    /\ getState.updateCount = MAX_UPDATES + 1
    /\ win \in timers

\* ------------------------------------------------------------------------
\* C2 as stated: once Locked the controller ignores new targets (apply
\* returns the old decoration set, view.update schedules nothing) and stays
\* Locked until the cooldown timer fires; the timer leaves the counter at 0
\* for a fresh attempt.
\* ------------------------------------------------------------------------
C2_LockedUntilTimer ==
    [][/\ \A s \in Sessions :
            (getState.locked /\ ApplyStep(s)) => deco' = deco
       /\ \A s \in Sessions :
            (getState.locked /\ UpdateStep(s)) => rafs' = rafs
       /\ (getState.locked /\ ~getState'.locked) =>
            CooldownFires /\ getState'.updateCount = 0]_vars

\* ------------------------------------------------------------------------
\* C2, amended: once Locked the controller ignores new targets until the
\* cooldown timer fires or a command resets the state (window.__pp_state
\* replaced by a fresh object); either way the controller is then unlocked
\* with the counter at 0, so that one fresh series of at most MAX_UPDATES
\* attempts follows.
\* ------------------------------------------------------------------------
C2_LockedUntilTimerOrReset ==
    [][/\ \A s \in Sessions :
            (getState.locked /\ ApplyStep(s)) =>
                deco' = deco /\ getState'.locked
       /\ \A s \in Sessions :
            (getState.locked /\ UpdateStep(s)) =>
                rafs' = rafs /\ getState'.locked
       /\ (getState.locked /\ ~getState'.locked) =>
            /\ CooldownFires \/ (win' # win /\ getState' = FreshState)
            /\ getState'.updateCount = 0]_vars

\* the cooldown has fired: the controller is unlocked with the counter at 0
\* while the target it froze on is still not the rendered count
C2_Witness ==
    /\ Idle
    /\ ~getState.locked
    /\ getState.updateCount = 0
    /\ getState.pageCount > 1
    /\ getState.pageCount # rendered[1]

\* ------------------------------------------------------------------------
\* C3 as stated: two editors of one process have independent stabilisation
\* state: no operation of one editor (its creation, an apply, a view.update
\* pass) changes the page count, lock flag or attempt counter the other
\* editor observes.
\* ------------------------------------------------------------------------
C3_IndependentSessions ==
    [][\A s, t \in Sessions :
          (/\ s # t
           /\ s \in active
           /\ \/ ApplyStep(t)
              \/ UpdateStep(t)
              \/ t \notin active /\ t \in active') =>
              getState' = getState]_vars

\* ------------------------------------------------------------------------
\* C4: whenever the content area is higher than 50 the estimator returns at
\* least 1; page removal never takes the count below 1.
\* ------------------------------------------------------------------------
C4_AtLeastOnePage ==
    (/\ est # NoEst
     /\ PageContentHeight(est.o, est.headerHeight, est.footerHeight)
            > MIN_CONTENT_AREA) =>
        est.ret >= 1

\* three pages rendered, content ending fifty pages above the last break:
\* the removal is floored at one page
C4_Witness ==
    /\ est # NoEst
    /\ est.fn = "calculatePageCount"
    /\ PageContentHeight(est.o, est.headerHeight, est.footerHeight)
          > MIN_CONTENT_AREA
    /\ est.d.hasBreaker /\ est.d.hasContent
    /\ est.d.children = 3
    /\ est.d.overflow = -40000
    /\ est.ret = 1

\* ------------------------------------------------------------------------
\* C5: when the content area is 50 or less the estimator returns exactly 1,
\* whatever the measured heights, the rendered count and the stored page
\* count.
\* ------------------------------------------------------------------------
C5_DegenerateGeometry ==
    (/\ est # NoEst
     /\ PageContentHeight(est.o, est.headerHeight, est.footerHeight)
            <= MIN_CONTENT_AREA) =>
        /\ est.ret = 1
        /\ est.fn # "targetPageCount" => est.out.pageCount = 1

\* a content area of 40, fifty pages rendered, a large overflow measured, 51
\* pages stored: the estimate is 1
C5_Witness ==
    /\ est # NoEst
    /\ est.fn = "calculatePageCount"
    /\ PageContentHeight(est.o, est.headerHeight, est.footerHeight) = 40
    /\ est.st.pageCount = 51
    /\ est.d.children = 50
    /\ est.d.overflow = 80000
    /\ est.ret = 1

\* ------------------------------------------------------------------------
\* C6 as stated: every target an estimator returns is at most the hard upper
\* bound (the largest one any variant configures is taken here).
\* ------------------------------------------------------------------------
C6_TargetClamped ==
    est # NoEst => est.ret <= Max(MAX_PAGES, MAX_PAGES_DIVISION)

\* ------------------------------------------------------------------------
\* C7: when the calculated target equals the rendered count and the options
\* equal the stored snapshot, apply returns the previous decoration set
\* unchanged (nothing is rebuilt or rendered, the snapshot stays), and
\* view.update schedules no corrective dispatch.
\* ------------------------------------------------------------------------
C7_StableIsNoOp ==
    [][\A s \in Sessions :
          /\ (/\ ApplyStep(s)
              /\ ~getState.locked
              /\ getState'.pageCount = rendered[s]
              /\ storage[s].opts = options[s]) =>
                 /\ phase'[s] = "applied"
                 /\ UNCHANGED <<deco, rendered, storage, timers>>
                 /\ getState'.updateCount = getState.updateCount
          /\ (/\ UpdateStep(s)
              /\ ~getState.locked
              /\ getState'.pageCount = rendered[s]) =>
                 /\ UNCHANGED <<rafs, timers, deco, rendered, storage>>
                 /\ ~getState'.locked]_vars

\* apply has returned the old decoration set of a paginated document: the
\* target equals the rendered count and the options equal the snapshot
C7_Witness ==
    /\ phase[1] = "applied"
    /\ ~getState.locked
    /\ rendered[1] > 1
    /\ getState.pageCount = rendered[1]
    /\ storage[1].opts = options[1]
    /\ deco[1].pages = rendered[1]

C9_FrozenIsAccepted ==
    \A s \in active :
        getState.locked =>
            /\ getState.pageCount = deco[s].pages
            /\ getState.pageCount = storage[s].lastPageCount

\* ------------------------------------------------------------------------
\* C10 as stated: with a content area above 50 the division strategy returns
\* max(1, ceil(contentHeight / pageContentHeight)) clamped to the hard upper
\* bound.
\* ------------------------------------------------------------------------
C10_DivisionClamped ==
    (/\ est # NoEst
     /\ est.fn \in {"calculatePageCountFromContent",
                    "calculatePageCountDivision"}
     /\ PageContentHeight(est.o, est.headerHeight, est.footerHeight)
            > MIN_CONTENT_AREA) =>
        est.ret =
            Min(Max(1, Ceil(est.d.contentHeight,
                            PageContentHeight(est.o, est.headerHeight,
                                              est.footerHeight))),
                MAX_PAGES_DIVISION)

\* the DOM d with content of height h instead
WithHeight(d, h) == [d EXCEPT !.contentHeight = h, !.hasContent = h > 0]

\* the content area of the recorded call
EstContentArea == PageContentHeight(est.o, est.headerHeight, est.footerHeight)

\* ------------------------------------------------------------------------
\* C11: for fixed page geometry the division-strategy target is monotone in
\* the measured height: the target of the recorded call is at most the
\* target for every height that is not smaller, be the second call made on
\* the state before or on the state after the first.
\* ------------------------------------------------------------------------
C11_DivisionMonotone ==
    /\ (est # NoEst /\ est.fn = "calculatePageCountFromContent") =>
          \A h2 \in EstHeights :
              est.d.contentHeight <= h2 =>
                  est.ret <= calculatePageCountFromContent(
                                 h2, est.o, est.headerHeight, est.footerHeight)
    /\ (est # NoEst /\ est.fn = "calculatePageCountDivision") =>
          \A h2 \in EstHeights, st \in {est.st, est.out} :
              est.d.contentHeight <= h2 =>
                  est.ret <= calculatePageCountDivision(
                                 st, est.o, est.headerHeight, est.footerHeight,
                                 WithHeight(est.d, h2)).ret

\* a content area of 740: a height of 741 has the target 2, above the
\* target 1 of the height 740, and a height of 400000 is clamped to 500
C11_Witness ==
    /\ est # NoEst
    /\ est.fn = "calculatePageCountDivision"
    /\ EstContentArea = 740
    /\ est.d.contentHeight = 741
    /\ est.ret = 2
    /\ calculatePageCountDivision(est.st, est.o, 0, 0,
                                  WithHeight(est.d, 740)).ret = 1
    /\ calculatePageCountDivision(est.st, est.o, 0, 0,
                                  WithHeight(est.d, 400000)).ret
          = MAX_PAGES_DIVISION

\* the unlocked states of the lock-based controller
UnlockedStates ==
    {[FreshState EXCEPT !.pageCount = n, !.updateCount = c] :
        n \in EstPageCounts, c \in {0, MAX_UPDATES}}

\* ------------------------------------------------------------------------
\* C12 as stated: the target of a call is the target of every call with the
\* same measured height, rendered count and configuration, whatever earlier
\* passes have left in the stored page count, the attempt counter, the
\* dimensionsKey and the base content height (the state after the call
\* itself included).
\* ------------------------------------------------------------------------
C12_NoHiddenState ==
    est # NoEst =>
        /\ est.fn = "calculatePageCount" =>
              \A st \in UnlockedStates \cup {est.out} :
                  calculatePageCount(st, est.o, est.headerHeight,
                                     est.footerHeight, est.d).ret = est.ret
        /\ est.fn = "calculatePageCountDivision" =>
              \A st \in DivisionStates(est.o) \cup {est.out} :
                  calculatePageCountDivision(st, est.o, est.headerHeight,
                                             est.footerHeight, est.d).ret
                      = est.ret
        /\ est.fn = "calculatePageCountDimensions" =>
              \A st \in DivisionStates(est.o) \cup {est.out} :
                  calculatePageCountDimensions(st, est.o, est.headerHeight,
                                               est.footerHeight, est.d).ret
                      = est.ret
        /\ est.fn = "targetPageCount" =>
              \A base \in EstBases \cup {est.out.globalBaseContentHeight} :
                  targetPageCount(base, est.d.contentHeight, est.o) = est.ret

\* the recorded call is an overflow correction: pagination is rendered with
\* its last break, there is content (above the noise floor where the variant
\* has one), the content area is not degenerate
EstCorrection ==
    /\ est # NoEst
    /\ est.fn \in {"calculatePageCount", "calculatePageCountDimensions",
                   "calculatePageCountDebug"}
    /\ EstContentArea > MIN_CONTENT_AREA
    /\ est.d.hasPagination /\ est.d.hasBreaker /\ est.d.hasContent
    /\ est.d.contentHeight >= MIN_CONTENT_HEIGHT

\* the overflow above which each variant adds pages
Tolerance(fn) ==
    CASE fn = "calculatePageCount" -> OVERFLOW_TOLERANCE
      [] fn = "calculatePageCountDimensions" -> OVERFLOW_TOLERANCE_DIMENSIONS
      [] OTHER -> 0

\* the scenario: three pages rendered, an overflow of 15, a content area of 740
EstScenario ==
    /\ EstCorrection
    /\ est.d.children = 3
    /\ est.d.overflow = 15
    /\ EstContentArea = 740

C14_NoRemovalOnOnePage ==
    (/\ EstCorrection
     /\ est.d.overflow <= 0
     /\ -est.d.overflow <= EstContentArea + est.o.pageGap) =>
        est.ret = est.d.children

\* ------------------------------------------------------------------------
\* C15 as stated: when no content element remains after the scaffolding is
\* excluded, or the summed content height is below 50, the estimator
\* returns 1, whether or not pagination is rendered.
\* ------------------------------------------------------------------------
C15_EmptyIsOnePage ==
    (/\ est # NoEst
     /\ est.fn \in {"calculatePageCount", "calculatePageCountDivision",
                    "calculatePageCountDimensions"}
     /\ ~est.d.hasContent \/ est.d.contentHeight < MIN_CONTENT_HEIGHT) =>
        est.ret = 1

\* the children of a container that are not pagination scaffolding: neither
\* the id "pages", nor one of the classes rm-pages-wrapper, rm-page-break,
\* rm-first-page-header, nor the attribute data-rm-pagination
Remaining(children) ==
    SelectSeq(children,
              LAMBDA c : /\ c.id # "pages"
                         /\ c.classList \cap {"rm-pages-wrapper", "rm-page-break",
                                              "rm-first-page-header"} = {}
                         /\ ~c.pagination)

Measure(fn, children) ==
    IF fn = "getActualContentHeight" THEN getActualContentHeight(children)
    ELSE totalContentHeight(children)

Measurers == {"getActualContentHeight", "totalContentHeight"}

\* C16: the measured content height is the sum of the heights of the
\* children that are not pagination scaffolding, and every container with
\* the same non-scaffolding children measures the same, whatever scaffolding
\* children it has.
C16_ScaffoldingIgnored ==
    est.fn \in Measurers =>
        /\ est.ret = SumHeights(Remaining(est.children))
        /\ \A other \in Containers :
              Remaining(other) = Remaining(est.children)
                  => Measure(est.fn, other) = est.ret

\* a container with content between the page wrapper and a page break
C16_Witness ==
    /\ est.fn \in Measurers
    /\ Len(est.children) = 3
    /\ est.children[1] = PagesWrapper
    /\ "rm-page-break" \in est.children[3].classList
    /\ est.ret = 740

\* C17: for every target page count n the lock-based createDecoration emits
\* exactly max(1, min(n, MAX_PAGES)) page-break wrappers, in order, numbered
\* 1..N; only the first is marked first page and its offset adds the header
\* height to the content height, every later one has the content height only.
C17_WrappersOfBuilder ==
    est.fn = "createDecoration" =>
        LET N == Max(1, Min(est.pageCount, MAX_PAGES))
        IN  /\ Len(est.ret) = N
            /\ N = createDecoration(est.pageCount).pages
            /\ \A k \in 1..N :
                  /\ est.ret[k].pageNumber = k
                  /\ est.ret[k].firstPage = (k = 1)
                  /\ est.ret[k].marginTop =
                        IF k = 1 THEN <<"_pageHeaderHeight", "_pageHeight">>
                        ELSE <<"_pageHeight">>

\* the builder called for four pages
C17_Witness ==
    /\ est.fn = "createDecoration"
    /\ est.pageCount = 4
    /\ Len(est.ret) = 4
    /\ est.ret[1].firstPage
    /\ est.ret[4].pageNumber = 4
    /\ ~est.ret[4].firstPage

Builders == {"createDecoration", "createDecorationBase", "createDecorationDebug"}

\* the stabilisation states a builder call can meet
BuilderStates(fn) ==
    CASE fn = "createDecoration" -> BuildLockStates
      [] fn = "createDecorationBase" -> {BaseState(b) : b \in BuildBases}
      [] OTHER -> BuildDebugStates

\* the page breaks builder fn emits for the inputs of call e in state st
BuildWith(fn, e, st) ==
    CASE fn = "createDecoration" ->
            pageWidget(e.pageOptions, e.headerHeightMap, e.footerHeightMap,
                       e.pageCount)
      [] fn = "createDecorationBase" ->
            pageWidgetBase(e.pageOptions, e.headerHeightMap, e.footerHeightMap,
                           st.globalBaseContentHeight)
      [] OTHER ->
            pageWidgetDebug(e.pageOptions, e.headerHeightMap,
                            e.footerHeightMap, st, e.d).ret

\* C18: building the decorations leaves the stabilisation state (lock flag,
\* attempt and call counters, stored page count, base content height) as it
\* was, and emits the same page breaks whatever that state is.
C18_BuilderIsPure ==
    est.fn \in Builders =>
        /\ est.out = est.st
        /\ \A st \in BuilderStates(est.fn) :
              BuildWith(est.fn, est, st) = est.ret

\* the cached height of a page, or the page-0 height when the cache has none
CachedOrDefault(heightMap, page) ==
    IF page \in DOMAIN heightMap THEN heightMap[page] ELSE MapGet(heightMap, 0)

C21_CacheHoldsMeasured ==
    est.fn = "viewUpdateStable" =>
        /\ est.out.storage.headerHeight =
              ForCurrentPages(est.measuredHeader, est.pageCount)
        /\ est.out.storage.footerHeight =
              ForCurrentPages(est.measuredFooter, est.pageCount)

\* C22: after a configuration command has changed an option value, the next
\* transaction applied while not locked rebuilds the pagination decorations
\* with the new options, and it starts a fresh correction pass: the attempt
\* counter is 0 when that transaction is applied.
C22_CommandRebuilds ==
    [][\A s \in Sessions :
          (/\ ApplyStep(s)
           /\ ~getState.locked
           /\ storage[s].opts # options[s]) =>
              /\ phase'[s] = "rebuilt"
              /\ storage'[s].opts = options[s]
              /\ getState.updateCount = 0]_vars

C24_NoDispatchIntoDestroyedView ==
    [][\A s \in Sessions :
          destroyed[s] =>
              /\ ~ApplyStep(s)
              /\ UNCHANGED <<deco, storage, rendered, phase>>]_vars

\* a callback of a destroyed view is pending
C24_Witness == \E s \in Sessions : destroyed[s] /\ rafs[s][win] > 0


\* the corrective callback of editor s fires on a live view and its
\* transaction is applied
CorrectiveApply(s) ==
    /\ ~destroyed[s]
    /\ \E o \in ObjIds : rafs'[s][o] < rafs[s][o]
    /\ ApplyStep(s)

\* C30: base-content-height variant: the apply of the corrective
\* transaction view.update dispatched rebuilds the pagination decorations
\* and the rebuilt decorations render the target page count
C30_CorrectiveApplyRebuilds ==
    [][\A s \in Sessions :
          CorrectiveApply(s) =>
              /\ phase'[s] = "rebuilt"
              /\ rendered'[s] = basePageCount(pp[win], options[s])]_vars


\* C25: within one transaction at most one decoration rebuild is produced,
\* and a second rebuild is only scheduled from view.update: from the apply
\* of a transaction until its view.update has run, the decorations, the
\* storage snapshot and the rendered pages do not change again and no
\* callback is scheduled or fired; a callback is scheduled only by the step
\* in which view.update runs
C25_OneRebuildPerTransaction ==
    [][\A s \in Sessions :
          /\ phase[s] # "idle" =>
                 /\ UNCHANGED <<deco, storage, rendered>>
                 /\ UpdateStep(s)
          /\ ApplyStep(s) => UNCHANGED rafs \/ CorrectiveApply(s)
          /\ \A o \in ObjIds : rafs'[s][o] > rafs[s][o] => UpdateStep(s)]_vars

\* a transaction was rebuilt, rendered, and view.update scheduled the next
\* corrective pass
C25_Witness ==
    \E s \in Sessions :
        /\ phase[s] = "idle"
        /\ rendered[s] > 1
        /\ rafs[s][win] > 0


\* apply of the transaction whose view.update is about to run called the
\* estimator: it rebuilt, or it left the controller unlocked (a locked
\* apply returns before the estimator and cannot unlock)
EstimatedByApply(s) ==
    /\ phase[s] # "idle"
    /\ phase[s] = "rebuilt" \/ ~Locked(getState)

\* C26: the controller refuses a second estimation pass within the minimum
\* interval: view.update, which the host calls in the task in which apply
\* ran, calls the estimator only when apply did not
C26_OneEstimationPerTask ==
    [][\A s \in Sessions :
          (UpdateStep(s) /\ EstimatedByApply(s)) => Locked(getState)]_vars


\* C27: for every page p, the header shown on page p is the custom header
\* registered for p when one exists and the default header otherwise, and
\* the footer shown on page p is the custom footer registered for p when
\* one exists and the default footer otherwise
C27_CustomOrDefaultTexts ==
    est.fn = "texts" =>
        /\ est.header = IF est.page \in DOMAIN est.customHeader
                        THEN est.customHeader[est.page]
                        ELSE est.commonHeader
        /\ est.footer = IF est.page \in DOMAIN est.customFooter
                        THEN est.customFooter[est.page]
                        ELSE est.commonFooter


\* C29: for a fixed document whose layout moves the last break bottom down
\* by pageHeight + pageGap per rendered page, rendering the target and
\* re-estimating settles: the controller never has to lock
C29_LoopSettlesWithoutLock ==
    /\ timers = {}
    /\ \A o \in ObjIds : ~Locked(pp[o])


\* the cooldown of editor s's controller has fired and nothing has run
\* since: the controller is unlocked with the counter at 0, the page count
\* the estimator returned last was never rendered (which only a lock leaves
\* behind), and the estimator's target for the rendered pages still differs
\* from the rendered count
AfterCooldown(s) ==
    /\ s \in active
    /\ Idle
    /\ ~Locked(getState)
    /\ getState.updateCount = 0
    /\ win \notin timers
    /\ getState.pageCount # rendered[s]
    /\ LoopTarget(s) # rendered[s]

\* C28, as stated: after the cooldown timer has fired with the rendered
\* page count still different from the target, a fresh convergence attempt
\* is eventually performed
C28_FreshAttemptAfterCooldown ==
    \A s \in Sessions : AfterCooldown(s) ~> (phase[s] # "idle")

\* C28, amended: when the cooldown timer fires, locked becomes false and
\* updateCount becomes 0 and the callback starts no pass of its own; the
\* fresh convergence attempt is performed by the next transaction applied
\* to the editor, which rebuilds with the target as the first counted
\* attempt
C28_CooldownThenNextTransactionRetries ==
    [][/\ CooldownFires =>
              /\ ~Locked(getState')
              /\ getState'.updateCount = 0
              /\ UNCHANGED <<rafs, phase, deco, storage, rendered>>
       /\ \A s \in Sessions :
              (AfterCooldown(s) /\ ApplyStep(s)) =>
                  /\ phase'[s] = "rebuilt"
                  /\ rendered'[s] = LoopTarget(s)
                  /\ getState'.updateCount = 1]_vars

C28_Witness == \E s \in Sessions : AfterCooldown(s)


\* C31: base-content-height variant: view.update schedules a corrective
\* dispatch only while the iteration counter it has just incremented is at
\* most MAX_PAGINATION_ITERATIONS, every scheduling pass leaves the counter
\* one higher, and the pass that finds the counter at the bound schedules
\* nothing and zeroes it: at most MAX_PAGINATION_ITERATIONS consecutive
\* corrective dispatches are scheduled
C31_IterationCap ==
    [][/\ pp'[win'].globalIterationCount <= MAX_PAGINATION_ITERATIONS
       /\ \A s \in Sessions :
            UpdateStep(s) =>
                LET count == pp[win].globalIterationCount
                IN  /\ rafs' # rafs =>
                           /\ count < MAX_PAGINATION_ITERATIONS
                           /\ pp'[win].globalIterationCount = count + 1
                    /\ count >= MAX_PAGINATION_ITERATIONS =>
                           /\ rafs' = rafs
                           /\ pp'[win].globalIterationCount = 0
       /\ \A s \in Sessions :
            ~UpdateStep(s) => \A o \in ObjIds : rafs'[s][o] <= rafs[s][o]]_vars

\* the last corrective dispatch the guard allows is pending
C31_Witness ==
    /\ pp[win].globalIterationCount = MAX_PAGINATION_ITERATIONS
    /\ \E s \in Sessions : rafs[s][win] > 0 /\ ~destroyed[s]


\* C32: debug variant: the safety stop of view.update takes effect after 50
\* iterations of view.update since the last reset of the debug state: while
\* fewer than 50 passes have run, view.update is not stopped
C32_StopAfterFiftyIterations ==
    est.iterations < 50 => ~Stopped(pp[win])


\* the division-strategy page count of the document as it now measures,
\* and the target view.update computes from the latched base height
DocPageCount(s) ==
    calculatePageCountFromContent(est.contentHeight, options[s], 0, 0)
BaseTarget(s) == basePageCount(pp[win], options[s])

\* C33: base-content-height variant: when content is deleted so that the
\* measured content height yields a smaller division-strategy page count
\* than the target, the target eventually decreases to that count without a
\* page-size command
C33_TargetShrinksAfterDeletion ==
    \A s \in Sessions :
        (s \in active /\ DocPageCount(s) < BaseTarget(s))
            ~> (BaseTarget(s) <= DocPageCount(s))


\* C34: in every reachable state the hard-break decoration set equals
\* buildDecorations of the current document, also after document-changing
\* transactions applied while the controller is Locked and after the lock
\* is released
C34_BreakDecorationsCurrent ==
    est.decorations = buildDecorations(est.doc)


\* C35: at any time at most one deferred corrective dispatch scheduled by
\* view.update is outstanding
C35_OneOutstandingDispatch == RafCount(rafs) <= 1


\* C36: lock-based controller: a state object is locked exactly while the
\* timer its lock started is pending; a Locked period of the controller
\* ends only when that timer fires or when a command resets the state; and
\* the timer of an earlier lock, which holds an object window.__pp_state
\* has left, changes neither the locked flag nor the attempt counter of the
\* current state object
C36_LockEndsByOwnTimerOrReset ==
    [][/\ \A o \in ObjIds : o \in timers <=> Locked(pp[o])
       /\ (Locked(getState) /\ ~Locked(getState')) =>
              \/ CooldownFires
              \/ win' # win /\ getState' = FreshState
       /\ \A o \in timers \ {win} :
              o \notin timers' => win' = win /\ getState' = getState]_vars

\* the timer of an earlier lock is pending on an object the state has left
\* while the current state object is locked by a later lock
C36_Witness ==
    /\ Locked(getState)
    /\ win \in timers
    /\ \E o \in timers : o # win


\* C37: lock-based controller: no corrective transaction is dispatched by a
\* deferred callback while the controller is Locked
C37_NoDispatchWhileLocked ==
    [][\A s \in Sessions : CorrectiveApply(s) => ~Locked(getState)]_vars

====
